---------------------------- MODULE Spec2Model ----------------------------
(***************************************************************************)
(* Model of the AI-Traveller request handlers and their response recovery *)
(* cascade: the Express route  app.post('/generate')  of server.js and the *)
(* Netlify function  exports.handler  of netlify/functions/generate.js.    *)
(*                                                                         *)
(* A text is a sequence of characters; a character is a one-character      *)
(* string (the backtick and the curly quotes are the named characters     *)
(* TICK, LDQ, RDQ, LSQ, RSQ).  All texts of the model are over Alphabet,   *)
(* and the                                                                 *)
(* JavaScript built-ins (JSON.parse, String.prototype.trim, the regular    *)
(* expressions) are modelled by what they do on texts over Alphabet.       *)
(***************************************************************************)
EXTENDS Integers, Sequences, FiniteSets, TLC

\* ------------------------------------------------------------ characters
QUOTE  == "\""
BSLASH == "\\"
TICK   == "tick"
LDQ    == "ldq"
RDQ    == "rdq"
LSQ    == "lsq"
RSQ    == "rsq"
APOS   == "'"
SP     == " "
NL     == "\n"

Digits == {"4", "2"}

Letters == {"a", "c", "e", "i", "j", "l", "n", "o", "p", "r", "s", "t", "y",
            "J", "S", "O", "N"}

Alphabet == {"{", "}", "[", "]", QUOTE, ",", ":", BSLASH, "/", "*", TICK,
             LDQ, RDQ, LSQ, RSQ, APOS, SP, NL} \cup Digits \cup Letters

\* null, as returned by extractJsonFromText: no text of characters equals it
NULL == <<"<null>">>

\* ------------------------------------------------------- text primitives
Min(S) == CHOOSE x \in S : \A y \in S : x <= y
Max(S) == CHOOSE x \in S : \A y \in S : x >= y

\* \s of a regular expression and the white space of trim(), over Alphabet
IsWs(c) == c \in {SP, NL}

\* s.slice(a - 1, b) for 1-based inclusive positions a..b
Slice(s, a, b) == IF a > b THEN <<>> ELSE SubSeq(s, a, b)

\* String.prototype.trim
Trim(s) ==
  LET keep == {i \in 1..Len(s) : ~IsWs(s[i])}
  IN  IF keep = {} THEN <<>> ELSE SubSeq(s, Min(keep), Max(keep))

\* the literal pat occurs in s at position i
MatchAt(s, i, pat) ==
  /\ i >= 1
  /\ i + Len(pat) - 1 <= Len(s)
  /\ \A k \in 1..Len(pat) : s[i + k - 1] = pat[k]

\* s.indexOf(pat, from), 1-based; 0 when pat does not occur
IndexFrom(s, pat, from) ==
  LET hits == {i \in from..Len(s) : MatchAt(s, i, pat)}
  IN  IF hits = {} THEN 0 ELSE Min(hits)

\* s.lastIndexOf(c), 1-based; 0 when c does not occur
LastIndexOf(s, c) ==
  LET hits == {i \in 1..Len(s) : s[i] = c}
  IN  IF hits = {} THEN 0 ELSE Max(hits)

\* first position >= i that holds no white space (Len(s) + 1 at the end): \s*
SkipWs(s, i) ==
  LET stops == {j \in i..Len(s) : ~IsWs(s[j])}
  IN  IF stops = {} THEN Len(s) + 1 ELSE Min(stops)

FENCE == <<TICK, TICK, TICK>>

\* the letters j, s, o, n in either case at position i: /json/i
JsonLabelAt(s, i) ==
  /\ i >= 1
  /\ i + 3 <= Len(s)
  /\ s[i] \in {"j", "J"}
  /\ s[i + 1] \in {"s", "S"}
  /\ s[i + 2] \in {"o", "O"}
  /\ s[i + 3] \in {"n", "N"}

\* ------------------------------------------------------------ JSON.parse
\* A JSON value is a pair <<tag, payload>>:
\*   <<str, text>>, <<num, text>>, <<arr, sequence of values>>,
\*   <<obj, function from key texts to values>>  (a repeated key keeps the
\*   last value, as a JavaScript object does).
\* Over Alphabet the literals true, false and null cannot be spelled, the
\* escapes are those of Escapes, and a number is digits with an optional
\* exponent e digits.
Fail == [ok |-> FALSE, v |-> <<>>, p |-> 0]

Ok(val, pos) == [ok |-> TRUE, v |-> val, p |-> pos]

Escapes == {QUOTE, BSLASH, "/", "n", "r", "t"}

Unescape(e) ==
  CASE e = "n" -> "\n"
    [] e = "r" -> "\r"
    [] e = "t" -> "\t"
    [] OTHER -> e

RECURSIVE ParseStringBody(_, _, _)
ParseStringBody(s, j, acc) ==
  IF j > Len(s) THEN Fail
  ELSE IF s[j] = QUOTE THEN Ok(acc, j + 1)
  ELSE IF s[j] = BSLASH THEN
         IF j + 1 <= Len(s) /\ s[j + 1] \in Escapes
         THEN ParseStringBody(s, j + 2, Append(acc, Unescape(s[j + 1])))
         ELSE Fail
  ELSE IF s[j] = NL THEN Fail
  ELSE ParseStringBody(s, j + 1, Append(acc, s[j]))

\* first position >= i that holds no digit
SkipDigits(s, i) ==
  LET stops == {j \in i..Len(s) : s[j] \notin Digits}
  IN  IF stops = {} THEN Len(s) + 1 ELSE Min(stops)

ParseNumber(s, i) ==
  LET j == SkipDigits(s, i)
      k == SkipDigits(s, j + 1)
  IN  IF j = i THEN Fail
      ELSE IF j <= Len(s) /\ s[j] = "e"
           THEN IF k = j + 1 THEN Fail ELSE Ok(<<"num", Slice(s, i, k - 1)>>, k)
           ELSE Ok(<<"num", Slice(s, i, j - 1)>>, j)

\* obj with key k set to val
Put(obj, k, val) ==
  [x \in (DOMAIN obj) \cup {k} |-> IF x = k THEN val ELSE obj[x]]

RECURSIVE ParseValue(_, _), ParseMembers(_, _, _), ParseElements(_, _, _)
ParseValue(s, i0) ==
  LET i == SkipWs(s, i0)
  IN  IF i > Len(s) THEN Fail
      ELSE IF s[i] = "{" THEN
             LET j == SkipWs(s, i + 1)
             IN  IF j <= Len(s) /\ s[j] = "}" THEN Ok(<<"obj", <<>>>>, j + 1)
                 ELSE ParseMembers(s, j, <<>>)
      ELSE IF s[i] = "[" THEN
             LET j == SkipWs(s, i + 1)
             IN  IF j <= Len(s) /\ s[j] = "]" THEN Ok(<<"arr", <<>>>>, j + 1)
                 ELSE ParseElements(s, j, <<>>)
      ELSE IF s[i] = QUOTE THEN
             LET r == ParseStringBody(s, i + 1, <<>>)
             IN  IF r.ok THEN Ok(<<"str", r.v>>, r.p) ELSE Fail
      ELSE IF s[i] \in Digits THEN ParseNumber(s, i)
      ELSE Fail

\* the members of an object from position i (a key is due), obj so far
ParseMembers(s, i0, obj) ==
  LET i == SkipWs(s, i0)
  IN  IF i > Len(s) \/ s[i] # QUOTE THEN Fail
      ELSE LET key == ParseStringBody(s, i + 1, <<>>)
           IN  IF ~key.ok THEN Fail
               ELSE LET c == SkipWs(s, key.p)
                    IN  IF c > Len(s) \/ s[c] # ":" THEN Fail
                        ELSE LET val == ParseValue(s, c + 1)
                             IN  IF ~val.ok THEN Fail
                                 ELSE LET n == SkipWs(s, val.p)
                                          next == Put(obj, key.v, val.v)
                                      IN  IF n > Len(s) THEN Fail
                                          ELSE IF s[n] = "," THEN ParseMembers(s, n + 1, next)
                                          ELSE IF s[n] = "}" THEN Ok(<<"obj", next>>, n + 1)
                                          ELSE Fail

\* the elements of an array from position i (a value is due), arr so far
ParseElements(s, i, arr) ==
  LET val == ParseValue(s, i)
  IN  IF ~val.ok THEN Fail
      ELSE LET n == SkipWs(s, val.p)
               next == Append(arr, val.v)
           IN  IF n > Len(s) THEN Fail
               ELSE IF s[n] = "," THEN ParseElements(s, n + 1, next)
               ELSE IF s[n] = "]" THEN Ok(<<"arr", next>>, n + 1)
               ELSE Fail

\* JSON.parse(s): ok is FALSE where JSON.parse throws a SyntaxError
JSONParse(s) ==
  LET r == ParseValue(s, 1)
  IN  IF r.ok /\ SkipWs(s, r.p) > Len(s) THEN [ok |-> TRUE, v |-> r.v]
      ELSE [ok |-> FALSE, v |-> <<>>]

\* --------------------------------------------- the regular expressions
\* /```json\s*([\s\S]*?)\s*```/i.exec(s)  (labelled)  and
\* /```\s*([\s\S]*?)\s*```/.exec(s)  (not labelled): capture group 1, or
\* NULL when there is no match.  The match starts at the leftmost opening
\* fence that has a closing fence after its white space; the first \s* is
\* greedy, the group is lazy and so ends before the white space that leads
\* to the first closing fence.
ExecFence(s, labelled) ==
  LET open(p) == MatchAt(s, p, FENCE) /\ (labelled => JsonLabelAt(s, p + 3))
      body(p) == SkipWs(s, IF labelled THEN p + 7 ELSE p + 3)
      close(p) == IndexFrom(s, FENCE, body(p))
      starts == {p \in 1..Len(s) : open(p) /\ close(p) # 0}
  IN  IF starts = {} THEN NULL
      ELSE LET p == Min(starts)
               inner == {i \in body(p)..(close(p) - 1) : ~IsWs(s[i])}
           IN  IF inner = {} THEN <<>> ELSE Slice(s, body(p), Max(inner))

\* out.replace(/```\s*json/i, FENCE): the first match only
ReplaceFenceLabel(s) ==
  LET hits == {p \in 1..Len(s) :
                 MatchAt(s, p, FENCE) /\ JsonLabelAt(s, SkipWs(s, p + 3))}
  IN  IF hits = {} THEN s
      ELSE LET p == Min(hits)
           IN  Slice(s, 1, p - 1) \o FENCE \o Slice(s, SkipWs(s, p + 3) + 4, Len(s))

\* out.replace(/```/g, ''): every occurrence, left to right
RECURSIVE RemoveFences(_)
RemoveFences(s) ==
  LET p == IndexFrom(s, FENCE, 1)
  IN  IF p = 0 THEN s
      ELSE Slice(s, 1, p - 1) \o RemoveFences(Slice(s, p + 3, Len(s)))

\* out.replace(/[LDQ RDQ]/g, QUOTE).replace(/[LSQ RSQ]/g, APOS)
ReplaceSmartQuotes(s) ==
  [i \in 1..Len(s) |-> IF s[i] \in {LDQ, RDQ} THEN QUOTE
                       ELSE IF s[i] \in {LSQ, RSQ} THEN APOS
                       ELSE s[i]]

\* out.replace(/\/\*[\s\S]*?\*\//g, ''): each comment ends at the first */
RECURSIVE RemoveBlockComments(_)
RemoveBlockComments(s) ==
  LET p == IndexFrom(s, <<"/", "*">>, 1)
      e == IF p = 0 THEN 0 ELSE IndexFrom(s, <<"*", "/">>, p + 2)
  IN  IF e = 0 THEN s
      ELSE Slice(s, 1, p - 1) \o RemoveBlockComments(Slice(s, e + 2, Len(s)))

\* out.replace(/(^|[^:\\])\/\/.*/g, '$1') on s from position from: a match is
\* // at the very start, or a character other than : and \ followed by //,
\* and runs to the end of the line (. matches no line terminator); the
\* character before // is kept.
RECURSIVE RemoveLineComments(_, _)
RemoveLineComments(s, from) ==
  LET slashes == <<"/", "/">>
      hits == {p \in from..Len(s) :
                 \/ p = 1 /\ MatchAt(s, 1, slashes)
                 \/ s[p] \notin {":", BSLASH} /\ MatchAt(s, p + 1, slashes)}
  IN  IF hits = {} THEN Slice(s, from, Len(s))
      ELSE LET p == Min(hits)
               anchored == p = 1 /\ MatchAt(s, 1, slashes)
               rest == IF anchored THEN p + 2 ELSE p + 3
               nl == IndexFrom(s, <<NL>>, rest)
               end == IF nl = 0 THEN Len(s) + 1 ELSE nl
           IN  Slice(s, from, IF anchored THEN p - 1 ELSE p)
                 \o RemoveLineComments(s, end)

\* out.replace(/,\s*([}\]])/g, '$1') on s from position from
RECURSIVE RemoveTrailingCommas(_, _)
RemoveTrailingCommas(s, from) ==
  LET closer(p) == SkipWs(s, p + 1)
      hits == {p \in from..Len(s) :
                 /\ s[p] = ","
                 /\ closer(p) <= Len(s)
                 /\ s[closer(p)] \in {"}", "]"}}
  IN  IF hits = {} THEN Slice(s, from, Len(s))
      ELSE LET p == Min(hits)
           IN  Slice(s, from, p - 1) \o <<s[closer(p)]>>
                 \o RemoveTrailingCommas(s, closer(p) + 1)

\* a JavaScript string used as a condition: null and the empty string are falsy
Truthy(s) == s # NULL /\ s # <<>>

\* ------------------------------------------------------------- server.js
\* the loop of extractJsonFromText from position i: the candidate, or NULL
RECURSIVE braceScan(_, _, _, _, _, _)
braceScan(s, firstBrace, i, depth, inString, lastChar) ==
  IF i > Len(s) THEN NULL
  ELSE LET ch == s[i]
           inStr == IF ch = QUOTE /\ lastChar # BSLASH THEN ~inString ELSE inString
           d == IF inStr THEN depth
                ELSE IF ch = "{" THEN depth + 1
                ELSE IF ch = "}" THEN depth - 1
                ELSE depth
       IN  IF d = 0 /\ i > firstBrace THEN Trim(Slice(s, firstBrace, i))
           ELSE braceScan(s, firstBrace, i + 1, d, inStr, ch)

extractJsonFromText(s) ==
  LET fencedJson == ExecFence(s, TRUE)
      fencedAny == ExecFence(s, FALSE)
      firstBrace == IndexFrom(s, <<"{">>, 1)
  IN  IF s = <<>> THEN NULL
      ELSE IF Truthy(fencedJson) THEN Trim(fencedJson)
      ELSE IF Truthy(fencedAny) THEN Trim(fencedAny)
      ELSE IF firstBrace = 0 THEN NULL
      ELSE braceScan(s, firstBrace, firstBrace, 0, FALSE, "")

sanitizeJsonString(s) ==
  LET out1 == Trim(s)
      out2 == ReplaceFenceLabel(out1)
      out3 == RemoveFences(out2)
      out4 == ReplaceSmartQuotes(out3)
      out5 == RemoveBlockComments(out4)
      out6 == RemoveLineComments(out5, 1)
      out7 == RemoveTrailingCommas(out6, 1)
  IN  IF s = <<>> THEN s ELSE Trim(out7)

\* ------------------------------------------ netlify/functions/generate.js
RECURSIVE fn_braceScan(_, _, _, _, _, _)
fn_braceScan(s, firstBrace, i, depth, inString, lastChar) ==
  IF i > Len(s) THEN NULL
  ELSE LET ch == s[i]
           inStr == IF ch = QUOTE /\ lastChar # BSLASH THEN ~inString ELSE inString
           d == IF inStr THEN depth
                ELSE IF ch = "{" THEN depth + 1
                ELSE IF ch = "}" THEN depth - 1
                ELSE depth
       IN  IF d = 0 /\ i > firstBrace THEN Trim(Slice(s, firstBrace, i))
           ELSE fn_braceScan(s, firstBrace, i + 1, d, inStr, ch)

fn_extractJsonFromText(s) ==
  LET fencedJson == ExecFence(s, TRUE)
      fencedAny == ExecFence(s, FALSE)
      firstBrace == IndexFrom(s, <<"{">>, 1)
  IN  IF s = <<>> THEN NULL
      ELSE IF Truthy(fencedJson) THEN Trim(fencedJson)
      ELSE IF Truthy(fencedAny) THEN Trim(fencedAny)
      ELSE IF firstBrace = 0 THEN NULL
      ELSE fn_braceScan(s, firstBrace, firstBrace, 0, FALSE, "")

\* fn_sanitizeJsonString without its last replace, the trailing commas
fn_sanitizeJsonString_KeepsCommas(s) ==
  LET out1 == Trim(s)
      out2 == ReplaceFenceLabel(out1)
      out3 == RemoveFences(out2)
      out4 == ReplaceSmartQuotes(out3)
      out5 == RemoveBlockComments(out4)
      out6 == RemoveLineComments(out5, 1)
  IN  IF s = <<>> THEN s ELSE Trim(out6)

fn_sanitizeJsonString(s) ==
  LET out1 == Trim(s)
      out2 == ReplaceFenceLabel(out1)
      out3 == RemoveFences(out2)
      out4 == ReplaceSmartQuotes(out3)
      out5 == RemoveBlockComments(out4)
      out6 == RemoveLineComments(out5, 1)
      out7 == RemoveTrailingCommas(out6, 1)
  IN  IF s = <<>> THEN s ELSE Trim(out7)

\* ------------------------------------------------------- response bodies
\* A response body is modelled by the JSON value its text denotes.
K_itinerary == <<"i", "t", "i", "n", "e", "r", "a", "r", "y">>
K_places    == <<"p", "l", "a", "c", "e", "s">>
K_error     == <<"e", "r", "r", "o", "r">>

\* { itinerary: text, places: [] }
Fallback(t) ==
  <<"obj", (K_itinerary :> <<"str", t>>) @@ (K_places :> <<"arr", <<>>>>)>>

\* { error: msg }, the message kept as one unit
ErrorBody(msg) == <<"obj", (K_error :> <<"str", <<msg>>>>)>>

\* ----------------------------------------------- the recovery cascades
\* what a cascade yields: the strategy that produced the body, the body,
\* extractJsonFromText's result and the recovery functions that ran
Outcome(strategy, body, extracted, functions) ==
  [strategy |-> strategy, body |-> body, maybe |-> extracted, ran |-> functions]

RanParse    == {"JSON.parse"}
RanExtract  == {"JSON.parse", "extractJsonFromText"}
RanSanitize == {"JSON.parse", "extractJsonFromText", "sanitizeJsonString"}

\* server.js, catch (e2): the text of sanitized from its first { to its
\* last }, parsed; on to the log writes and the fallback when that fails
serverTruncated(t, extracted, sanitized, first, last) ==
  IF first # 0 /\ last # 0 /\ last > first
       /\ JSONParse(Slice(sanitized, first, last)).ok
  THEN Outcome("truncated", JSONParse(Slice(sanitized, first, last)).v,
               extracted, RanSanitize)
  ELSE Outcome("fallback", Fallback(t), extracted, RanSanitize)

\* server.js, if (maybe): sanitize and parse
serverSanitized(t, extracted, sanitized) ==
  IF JSONParse(sanitized).ok
  THEN Outcome("sanitized", JSONParse(sanitized).v, extracted, RanSanitize)
  ELSE serverTruncated(t, extracted, sanitized,
                       IndexFrom(sanitized, <<"{">>, 1),
                       LastIndexOf(sanitized, "}"))

\* server.js, catch (parseErr): extract a candidate
serverExtracted(t, extracted) ==
  IF Truthy(extracted)
  THEN serverSanitized(t, extracted, sanitizeJsonString(extracted))
  ELSE Outcome("fallback", Fallback(t), extracted, RanExtract)

\* server.js, the try/catch cascade on the provider's text, without its
\* log writes
serverCascade(t) ==
  IF JSONParse(t).ok THEN Outcome("direct", JSONParse(t).v, NULL, RanParse)
  ELSE serverExtracted(t, extractJsonFromText(t))

\* generate.js, catch (e2)
fn_Truncated(t, extracted, sanitized, first, last) ==
  IF first # 0 /\ last # 0 /\ last > first
       /\ JSONParse(Slice(sanitized, first, last)).ok
  THEN Outcome("truncated", JSONParse(Slice(sanitized, first, last)).v,
               extracted, RanSanitize)
  ELSE Outcome("fallback", Fallback(t), extracted, RanSanitize)

\* generate.js, if (maybe)
fn_Sanitized(t, extracted, sanitized) ==
  IF JSONParse(sanitized).ok
  THEN Outcome("sanitized", JSONParse(sanitized).v, extracted, RanSanitize)
  ELSE fn_Truncated(t, extracted, sanitized,
                    IndexFrom(sanitized, <<"{">>, 1),
                    LastIndexOf(sanitized, "}"))

\* generate.js, catch (e)
fn_Extracted(t, extracted) ==
  IF Truthy(extracted)
  THEN fn_Sanitized(t, extracted, fn_sanitizeJsonString(extracted))
  ELSE Outcome("fallback", Fallback(t), extracted, RanExtract)

\* generate.js, the try/catch cascade of the serverless handler
fn_Cascade(t) ==
  IF JSONParse(t).ok THEN Outcome("direct", JSONParse(t).v, NULL, RanParse)
  ELSE fn_Extracted(t, fn_extractJsonFromText(t))

\* ------------------------------------------------- the provider's texts
\* bound of the texts that are enumerated exhaustively
MaxLen == 3

CoreChars == {"{", "}", "[", "]", QUOTE, BSLASH, ",", "4"}

ShortTexts == UNION {[1..n -> CoreChars] : n \in 0..MaxLen}

Str(v, smart) ==
  IF smart THEN <<LDQ>> \o v \o <<RDQ>> ELSE <<QUOTE>> \o v \o <<QUOTE>>

\* {"itinerary":"<v>","places":[]}, with an optional comma (and white space)
\* inserted before the closing bracket or the closing brace
ObjA(v, smart, comma) ==
  <<"{">> \o Str(K_itinerary, smart) \o <<":">> \o Str(v, smart) \o <<",">>
    \o Str(K_places, smart) \o <<":", "[">>
    \o (IF comma = "array" THEN <<",">> ELSE <<>>) \o <<"]">>
    \o (CASE comma = "object" -> <<",">>
          [] comma = "objectWs" -> <<",", NL, SP>>
          [] OTHER -> <<>>)
    \o <<"}">>

\* {"places":[{"a":"<v>"}],"itinerary":"a"}, with the same optional commas
ObjB(v, smart, comma) ==
  <<"{">> \o Str(K_places, smart) \o <<":", "[", "{">> \o Str(<<"a">>, smart)
    \o <<":">> \o Str(v, smart)
    \o (IF comma = "objectWs" THEN <<",", SP>> ELSE <<>>) \o <<"}">>
    \o (IF comma = "array" THEN <<",">> ELSE <<>>) \o <<"]", ",">>
    \o Str(K_itinerary, smart) \o <<":">> \o Str(<<"a">>, smart)
    \o (IF comma = "object" THEN <<",">> ELSE <<>>) \o <<"}">>

Obj(shape, v, smart, comma) ==
  IF shape = "A" THEN ObjA(v, smart, comma) ELSE ObjB(v, smart, comma)

Shapes == {"A", "B"}

\* string bodies with only braces, escaped quotes and escaped backslashes
PlainBodies ==
  { <<"a">>, <<"{">>, <<"}">>, <<"{", "a", "}">>, <<"a", BSLASH, QUOTE, "}">>,
    <<BSLASH, BSLASH, "a">>, <<"a", BSLASH, BSLASH>> }

\* string bodies with characters that sanitizeJsonString rewrites
RewrittenBodies ==
  { <<"a", " ", "/", "/", "a">>, <<"a", ":", "/", "/", "a">>,
    <<"/", "*", "a", "*", "/">>, <<"a", ",", "}">>, <<"a", ",", " ", "]">>,
    <<LDQ, "a", RDQ>>, <<"a", RSQ, "s">>, <<TICK, TICK, TICK, "a">> }

Bodies == PlainBodies \cup RewrittenBodies

Prose == <<"a", "s", SP>>

Labels == {<<"j", "s", "o", "n">>, <<"J", "S", "O", "N">>, <<"J", "s", "o", "n">>}

\* what may stand before a labelled fence: nothing, prose, an unlabelled
\* fence, a brace-delimited object
Leads ==
  { <<>>, Prose, FENCE \o <<NL, "a", NL>> \o FENCE \o <<NL>>,
    <<"{", QUOTE, "a", QUOTE, ":", "4", "}", NL>> }

\* the prose before and after an object, at least one of them
Wraps == {<<Prose, <<>>>>, <<<<>>, Prose>>, <<Prose, Prose>>}

Input(kind, v, obj, t) == [kind |-> kind, val |-> v, obj |-> obj, text |-> t]

\* texts that are neither an object in a wrapper nor short
MiscTexts ==
  { <<SP, NL>>, <<"a", "s", SP, "a">>, <<"4", "2">>, <<"4", "e", "2">>,
    <<QUOTE, "a", QUOTE>>, <<"[", "4", ",", "2", "]">>,
    <<"{", QUOTE, "a", QUOTE, ":", "4", "2", "}">>,
    <<"{", QUOTE, "a", QUOTE, ":">>,
    <<"a", "{", QUOTE, "a", QUOTE, ":", "4", "}", "}">>,
    <<"a", "{", "a", "}">>,
    FENCE \o <<"[", "4", "]">> \o FENCE,
    FENCE \o <<"j", "s", "o", "n">> \o FENCE,
    FENCE \o FENCE,
    <<"a">> \o FENCE \o <<"j", "s", "o", "n", SP, "4", "2", NL>> \o FENCE,
    <<"a", SP, "{", "}", ",", "}", SP>>,
    <<"a", "/", "/", "{", "}">>,
    <<"a", "{", "/", "*", "}", "*", "/", "}">> }

Inputs ==
  {Input("short", <<>>, <<>>, t) : t \in ShortTexts \cup MiscTexts}
  \cup {Input("plain", v, Obj(sh, v, FALSE, "none"), Obj(sh, v, FALSE, "none")) :
          sh \in Shapes, v \in Bodies}
  \cup {Input("prose", v, Obj(sh, v, FALSE, "none"),
              w[1] \o Obj(sh, v, FALSE, "none") \o w[2]) :
          sh \in Shapes, v \in Bodies, w \in Wraps}
  \cup {Input("fenced", v, Obj(sh, v, FALSE, "none"),
              lead \o FENCE \o lab \o <<NL>> \o Obj(sh, v, FALSE, "none")
                \o <<NL>> \o FENCE \o <<NL>>) :
          sh \in Shapes, v \in Bodies, lab \in Labels, lead \in Leads}
  \cup {Input("smart", v, Obj(sh, v, FALSE, "none"), Obj(sh, v, TRUE, "none")) :
          sh \in Shapes, v \in Bodies}
  \cup {Input("comma", v, Obj(sh, v, FALSE, "none"), Obj(sh, v, FALSE, c)) :
          sh \in Shapes, v \in Bodies, c \in {"object", "objectWs", "array"}}

NoInput == Input("none", <<>>, <<>>, <<>>)

\* ----------------------------------------------------------------- state
VARIABLES
  deployment,   \* "server": app.post('/generate'); "netlify": exports.handler
  genAI,        \* TRUE when the module-level client was constructed
  method,       \* the request's HTTP method
  reqBody,      \* the request body as the handler finds it
  pc,           \* where the handler is
  input,        \* how the provider's text was built
  text,         \* the text the provider returned
  strategy,     \* the parse attempt that produced the body
  maybe,        \* extractJsonFromText's result
  ran,          \* which of the recovery functions have run on the text
  responses,    \* the responses sent or returned, in order
  providerCalls, \* how often the provider invocation was started
  raised,       \* the provider call that threw, or "none"
  logsDir,      \* whether the directory logs exists
  logged,       \* the entries appended to logs/ai_responses.log
  logFailures   \* how many log writes have thrown

vars == <<deployment, genAI, method, reqBody, pc, input, text, strategy, maybe,
          ran, responses, providerCalls, raised, logsDir, logged, logFailures>>

Methods == {"POST", "GET"}

\* server.js: req.body is unparsed until express.json() has run, then an
\* object, or undefined where the installed framework leaves the body of a
\* request without JSON content undefined.
\* generate.js: event.body, the text of a JSON object, absent, the text
\* null, or text that is not JSON.
Bodies_server  == {"object", "undefined"}
Bodies_netlify == {"object", "absent", "null", "malformed"}

RaiseStages == {"getGenerativeModel", "generateContent", "response", "text"}

Init ==
  /\ deployment \in {"server", "netlify"}
  /\ genAI \in BOOLEAN
  /\ method \in (IF deployment = "server" THEN {"POST"} ELSE Methods)
  /\ reqBody \in (IF deployment = "server" THEN {"unparsed"} ELSE Bodies_netlify)
  /\ pc = (IF deployment = "server" THEN "middleware" ELSE "start")
  /\ input = NoInput
  /\ text = NULL
  /\ strategy = "none"
  /\ maybe = NULL
  /\ ran = {}
  /\ responses = <<>>
  /\ providerCalls = 0
  /\ raised = "none"
  /\ logsDir \in BOOLEAN
  /\ logged = <<>>
  /\ logFailures = 0

\* the handler answers with status and body, and ends
Respond(status, body) ==
  /\ responses' = Append(responses, [status |-> status, body |-> body])
  /\ pc' = "done"

\* ------------------------------------------------------------- server.js
ServerUnavailable ==
  Respond(503, ErrorBody("AI service not configured. Please set GEMINI_API_KEY on the server."))

\* ServerCatch answering as the parse fallback does
ServerCatch_AsFallback == Respond(200, Fallback(<<>>))

\* the catch of the route's outer try
ServerCatch ==
  Respond(500, ErrorBody("Failed to generate itinerary. Please try again."))

\* app.use(express.json()): the route finds req.body as the middleware left it
ServerJsonMiddleware ==
  /\ deployment = "server"
  /\ pc = "middleware"
  /\ reqBody' \in Bodies_server
  /\ pc' = "start"
  /\ UNCHANGED <<deployment, genAI, method, input, text, strategy, maybe, ran,
                 responses, providerCalls, raised, logsDir, logged, logFailures>>

\* the route up to the prompt: destructure req.body, check the client
ServerStart ==
  /\ deployment = "server"
  /\ pc = "start"
  /\ IF reqBody = "undefined" THEN ServerCatch
     ELSE IF ~genAI THEN ServerUnavailable
     ELSE /\ pc' = "call"
          /\ UNCHANGED responses
  /\ UNCHANGED <<deployment, genAI, method, reqBody, input, text, strategy,
                 maybe, ran, providerCalls, raised, logsDir, logged, logFailures>>

\* getGenerativeModel, generateContent, result.response, response.text():
\* one of them throws, or text() returns the provider's text
ServerCallProvider ==
  /\ deployment = "server"
  /\ pc = "call"
  /\ providerCalls' = providerCalls + 1
  /\ \/ /\ \E stage \in RaiseStages : raised' = stage
        /\ ServerCatch
        /\ UNCHANGED <<input, text>>
     \/ /\ \E inp \in Inputs :
             /\ input' = inp
             /\ text' = inp.text
        /\ pc' = "recover"
        /\ UNCHANGED <<raised, responses>>
  /\ UNCHANGED <<deployment, genAI, method, reqBody, strategy, maybe, ran,
                 logsDir, logged, logFailures>>

\* the parse attempts: res.json of the first that succeeds, else on to the
\* log writes before the fallback
ServerRecover ==
  /\ deployment = "server"
  /\ pc = "recover"
  /\ \E r \in {serverCascade(text)} :
         /\ strategy' = r.strategy
         /\ maybe' = r.maybe
         /\ ran' = r.ran
         /\ IF r.strategy # "fallback" THEN Respond(200, r.body)
            ELSE /\ pc' = IF Truthy(r.maybe) THEN "log1" ELSE "log2"
                 /\ UNCHANGED responses
  /\ UNCHANGED <<deployment, genAI, method, reqBody, input, text,
                 providerCalls, raised, logsDir, logged, logFailures>>

\* LogWriteThrew without the try around the write: the outer catch answers
LogWriteThrew_Uncaught(next) ==
  /\ logFailures' = logFailures + 1
  /\ ServerCatch

\* a log write threw inside its try: the catch warns and the handler goes on
LogWriteThrew(next) ==
  /\ logFailures' = logFailures + 1
  /\ pc' = next
  /\ UNCHANGED responses

\* if (!fs.existsSync(logsDir)) fs.mkdirSync(logsDir); fs.appendFileSync(...)
LogWrite(entry, next) ==
  \/ /\ ~logsDir                      \* mkdirSync throws
     /\ LogWriteThrew(next)
     /\ UNCHANGED <<logsDir, logged>>
  \/ /\ logsDir' = TRUE               \* appendFileSync throws
     /\ LogWriteThrew(next)
     /\ UNCHANGED logged
  \/ /\ logsDir' = TRUE               \* the entry is appended
     /\ logged' = Append(logged, entry)
     /\ pc' = next
     /\ UNCHANGED <<responses, logFailures>>

\* the log write in catch (e2): Failed to parse extracted JSON
ServerLogExtracted ==
  /\ deployment = "server"
  /\ pc = "log1"
  /\ LogWrite("Failed to parse extracted JSON", "log2")
  /\ UNCHANGED <<deployment, genAI, method, reqBody, input, text, strategy,
                 maybe, ran, providerCalls, raised>>

\* the log write of the final fallback: JSON parse error
ServerLogParseError ==
  /\ deployment = "server"
  /\ pc = "log2"
  /\ LogWrite("JSON parse error", "fallback")
  /\ UNCHANGED <<deployment, genAI, method, reqBody, input, text, strategy,
                 maybe, ran, providerCalls, raised>>

\* return res.json({ itinerary: text, places: [] })
ServerFallback ==
  /\ deployment = "server"
  /\ pc = "fallback"
  /\ Respond(200, Fallback(text))
  /\ UNCHANGED <<deployment, genAI, method, reqBody, input, text, strategy,
                 maybe, ran, providerCalls, raised, logsDir, logged, logFailures>>

\* ------------------------------------------ netlify/functions/generate.js
FnMethodNotAllowed == Respond(405, ErrorBody("Method not allowed"))

\* FnUnavailable without its return: the handler goes on into the try
FnUnavailable_FallsThrough ==
  /\ pc' = "body"
  /\ UNCHANGED responses

FnUnavailable ==
  Respond(503, ErrorBody("AI service not configured. Set GEMINI_API_KEY."))

\* the catch of the handler's try
FnCatch == Respond(500, ErrorBody("Internal server error"))

\* the two checks before the try
FnStart ==
  /\ deployment = "netlify"
  /\ pc = "start"
  /\ IF method # "POST" THEN FnMethodNotAllowed
     ELSE IF ~genAI THEN FnUnavailable
     ELSE /\ pc' = "body"
          /\ UNCHANGED responses
  /\ UNCHANGED <<deployment, genAI, method, reqBody, input, text, strategy,
                 maybe, ran, providerCalls, raised, logsDir, logged, logFailures>>

\* JSON.parse(event.body || '{}') and the destructuring of its result
FnParseBody ==
  /\ deployment = "netlify"
  /\ pc = "body"
  /\ IF reqBody \in {"malformed", "null"} THEN FnCatch
     ELSE /\ pc' = "call"
          /\ UNCHANGED responses
  /\ UNCHANGED <<deployment, genAI, method, reqBody, input, text, strategy,
                 maybe, ran, providerCalls, raised, logsDir, logged, logFailures>>

FnCallProvider ==
  /\ deployment = "netlify"
  /\ pc = "call"
  /\ providerCalls' = providerCalls + 1
  /\ \/ /\ \E stage \in RaiseStages : raised' = stage
        /\ FnCatch
        /\ UNCHANGED <<input, text>>
     \/ /\ \E inp \in Inputs :
             /\ input' = inp
             /\ text' = inp.text
        /\ pc' = "recover"
        /\ UNCHANGED <<raised, responses>>
  /\ UNCHANGED <<deployment, genAI, method, reqBody, strategy, maybe, ran,
                 logsDir, logged, logFailures>>

\* the parse attempts and the fallback, each a return of status 200
FnRecover ==
  /\ deployment = "netlify"
  /\ pc = "recover"
  /\ \E r \in {fn_Cascade(text)} :
         /\ strategy' = r.strategy
         /\ maybe' = r.maybe
         /\ ran' = r.ran
         /\ Respond(200, r.body)
  /\ UNCHANGED <<deployment, genAI, method, reqBody, input, text,
                 providerCalls, raised, logsDir, logged, logFailures>>

Next ==
  \/ ServerJsonMiddleware
  \/ ServerStart
  \/ ServerCallProvider
  \/ ServerRecover
  \/ ServerLogExtracted
  \/ ServerLogParseError
  \/ ServerFallback
  \/ FnStart
  \/ FnParseBody
  \/ FnCallProvider
  \/ FnRecover

Spec == Init /\ [][Next]_vars

\* ---------------------------------------------------------------- claims
Done == pc = "done"

\* the provider returned a text and the handler has answered
Recovered == Done /\ text # NULL

Status == responses[1].status

Body == responses[1].body

\* a JSON object with a key itinerary and a key places whose value is an array
IsItineraryResult(b) ==
  /\ b[1] = "obj"
  /\ K_itinerary \in DOMAIN b[2]
  /\ K_places \in DOMAIN b[2]
  /\ b[2][K_places][1] = "arr"

\* C1: for every text of the provider the handler answers 200 with a body
\* that is an object with itinerary and an array places, or the fallback
\* { itinerary: text, places: [] }.
C1_ItineraryOrFallback ==
  Recovered =>
    /\ Len(responses) = 1
    /\ Status = 200
    /\ IsItineraryResult(Body) \/ Body = Fallback(text)

\* C2: for every text of the provider without a { the answer is exactly the
\* fallback { itinerary: text, places: [] }.
C2_NoBraceIsFallback ==
  (Recovered /\ IndexFrom(text, <<"{">>, 1) = 0) =>
    responses = <<[status |-> 200, body |-> Fallback(text)]>>

\* C3: for prose around one valid JSON object whose strings hold braces,
\* escaped quotes and escaped backslashes, extractJsonFromText returns that
\* object's text and the answer is its parse.
C3_ScanIsQuoteAware ==
  (Recovered /\ input.kind = "prose" /\ input.val \in PlainBodies) =>
    /\ maybe = input.obj
    /\ Body = JSONParse(input.obj).v

\* C4: for a text with a fence labelled json around a valid JSON object the
\* answer is the parse of that object, unmodified, whatever stands before
\* the fence and whatever the object's strings hold.
C4_FencedJsonIsReturned ==
  (Recovered /\ input.kind = "fenced") =>
    /\ Status = 200
    /\ Body = JSONParse(input.obj).v

\* C5: for a valid JSON object whose string delimiters are curly quotes the
\* answer is the parse of the object with straight quotes, also when its
\* strings hold braces (stated for the strings of PlainBodies, which hold
\* nothing that sanitizeJsonString rewrites).
C5_SmartQuotesRecovered ==
  (Recovered /\ input.kind = "smart" /\ input.val \in PlainBodies) =>
    /\ strategy # "fallback"
    /\ Body = JSONParse(input.obj).v

\* C6: for a valid JSON object with a comma inserted before a closing } or ]
\* the answer is the parse of the object without that comma.
C6_TrailingCommaRecovered ==
  (Recovered /\ input.kind = "comma") =>
    /\ strategy # "fallback"
    /\ Body = JSONParse(input.obj).v

C8_ProviderThrows500 ==
  raised # "none" =>
    /\ genAI
    /\ Done
    /\ providerCalls = 1
    /\ ran = {}
    /\ responses =
         <<[status |-> 500,
            body |-> IF deployment = "server"
                     THEN ErrorBody("Failed to generate itinerary. Please try again.")
                     ELSE ErrorBody("Internal server error")]>>

\* C8 witness: generateContent threw in the server route, which has answered
C8_Witness ==
  /\ raised = "generateContent"
  /\ deployment = "server"
  /\ Done
  /\ Len(responses) = 1

\* C9: in the server route the answer depends on the provider's text alone,
\* not on whether the log writes succeed or throw: a write that throws
\* leaves the answer the 200 fallback, and an entry is appended only on the
\* way to the fallback, never after a parse attempt succeeded.
C9_LoggingIsIsolated ==
  deployment = "server" =>
    /\ (logged # <<>> \/ logFailures > 0) =>
         /\ strategy = "fallback"
         /\ pc \in {"log2", "fallback", "done"}
         /\ pc # "done" => responses = <<>>
         /\ pc = "done" =>
              responses = <<[status |-> 200, body |-> Fallback(text)]>>
    /\ Recovered =>
         responses = <<[status |-> 200, body |-> serverCascade(text).body]>>
    /\ (Recovered /\ strategy # "fallback") => logged = <<>> /\ logFailures = 0

\* C9 witness: both log writes threw and the route has answered 200
C9_Witness ==
  /\ deployment = "server"
  /\ Done
  /\ logFailures = 2
  /\ logged = <<>>
  /\ Len(responses) = 1
  /\ Status = 200

\* C10: on the same provider text the server route and the serverless
\* handler answer with the same body, reached through the same strategy.
C10_SameRecovery ==
  /\ (Recovered /\ deployment = "server") =>
       /\ Len(responses) = 1
       /\ Status = 200
       /\ Body = fn_Cascade(text).body
       /\ strategy = fn_Cascade(text).strategy
  /\ (Recovered /\ deployment = "netlify") =>
       /\ Len(responses) = 1
       /\ Status = 200
       /\ Body = serverCascade(text).body
       /\ strategy = serverCascade(text).strategy

\* C10 witness: the serverless handler has answered a text with an inserted
\* comma through the parse of the sanitized candidate
C10_Witness ==
  /\ Recovered
  /\ deployment = "netlify"
  /\ input.kind = "comma"
  /\ strategy = "sanitized"
  /\ Body = JSONParse(input.obj).v

=============================================================================
